---------------------------- MODULE Spec2Model ----------------------------
(***************************************************************************)
(* Model of src/风险控制/src/main.py: the ATR risk calculator.              *)
(*                                                                         *)
(* Floats are modelled in exact rational arithmetic: a float is a pair     *)
(* <<n, d>> in lowest terms with d > 0, and <<1, 0>> is float("inf").      *)
(* Prices, percentages and amounts read from the feed or the form are      *)
(* drawn from small sets of integers and converted by float().             *)
(*                                                                         *)
(* Specifications:                                                         *)
(*   SpecATR   compute_atr applied to a drawn candle series and period     *)
(*   SpecStop  App.compute_stop_distance applied to drawn form fields      *)
(*   SpecMHT   median_hitting_time_bm applied to drawn arguments           *)
(*   SpecCalc  one App.on_calculate on a freshly built App                 *)
(*   Spec      any sequence of App.on_calculate requests                   *)
(***************************************************************************)
EXTENDS Integers, Sequences, FiniteSets, TLC

VARIABLES
    mode_var,            \* form: "CEX" or "DEX"
    bar_var,             \* form: candle interval label (editable combobox)
    atr_n_var,           \* form: ATR period, an integer
    custom_atr_var,      \* form: <<>> when empty, <<v>> when filled in
    open_notional_var,   \* form: notional amount
    stop_pct_var,        \* form: <<>> when empty, <<v>> when filled in
    stop_level_var,      \* form: <<>> when empty, <<v>> when filled in
    side_var,            \* form: "Long" (多头) or "Short" (空头)
    pos_highlight_var,   \* published: loss amount label
    time_highlight_var,  \* published: median hitting time label
    txt,                 \* published: result text lines
    status_var,          \* status line
    feed,                \* what the price collaborators answer to the request
    arg,                 \* arguments of the function a specification applies
    ret                  \* what the latest call returned or raised

form == <<mode_var, bar_var, atr_n_var, custom_atr_var, open_notional_var,
          stop_pct_var, stop_level_var, side_var>>
published == <<pos_highlight_var, time_highlight_var, txt>>
vars == <<form, published, status_var, feed, arg, ret>>

---------------------------------------------------------------------------
(* Bounds of the model. *)
MaxPrice == 3
MaxLen == 3

---------------------------------------------------------------------------
(* Float arithmetic, exact. *)

Abs(x) == IF x < 0 THEN -x ELSE x

RECURSIVE GCD(_, _)
GCD(a, b) == IF b = 0 THEN a ELSE GCD(b, a % b)

INF == <<1, 0>>

\* n / d in lowest terms, d # 0
Norm(n, d) ==
    LET g == GCD(Abs(n), Abs(d))
        s == IF d < 0 THEN -1 ELSE 1
    IN  <<(s * n) \div g, (s * d) \div g>>

\* float(x) of an integer literal
float(x) == <<x, 1>>

RIsInf(q) == q[2] = 0
RMul(p, q) == IF RIsInf(p) \/ RIsInf(q) THEN INF ELSE Norm(p[1] * q[1], p[2] * q[2])
\* p / q, q # 0
RDiv(p, q) == IF RIsInf(p) THEN INF ELSE Norm(p[1] * q[2], p[2] * q[1])
RSub(p, q) == Norm(p[1] * q[2] - q[1] * p[2], p[2] * q[2])
RLeqZero(q) == ~RIsInf(q) /\ q[1] <= 0
RMax0(q) == IF q[1] < 0 THEN float(0) ELSE q

---------------------------------------------------------------------------
(* Python sequence helpers (0-based indices, as in the source). *)

\* range(a, b) has this many elements
RangeLen(a, b) == IF b > a THEN b - a ELSE 0

PyIndex(k, n) ==
    LET j == IF k < 0 THEN k + n ELSE k
    IN  IF j < 0 THEN 0 ELSE IF j > n THEN n ELSE j

\* s[a:b]
PySlice(s, a, b) ==
    LET lo == PyIndex(a, Len(s))
        hi == PyIndex(b, Len(s))
    IN  [k \in 1..RangeLen(lo, hi) |-> s[lo + k]]

RECURSIVE sum(_)
sum(s) == IF s = <<>> THEN 0 ELSE Head(s) + sum(Tail(s))

---------------------------------------------------------------------------
(* Results of a call: a value, or the exception raised. *)

Unset == <<0, 0>>
Pending == [err |-> "pending", val |-> Unset]
Return(v) == [err |-> "none", val |-> v]
Raise(kind) == [err |-> kind, val |-> Unset]

---------------------------------------------------------------------------
(* Volatility estimator. *)

Max2(a, b) == IF a >= b THEN a ELSE b

compute_true_range(prev_close, high, low) ==
    Max2(high - low, Max2(Abs(high - prev_close), Abs(low - prev_close)))

compute_atr_first_window(candles, period) ==
    LET n == Len(candles)
        trs == [i \in 1..RangeLen(1, n) |->
                   compute_true_range(candles[i].close, candles[i + 1].high,
                                      candles[i + 1].low)]
        cnt == RangeLen(period - 1, Len(trs))
        window(i) == PySlice(trs, i - (period - 1), i + 1)
    IN  IF n < period + 1 THEN Raise("InsufficientData")
        ELSE IF period = 0 THEN Raise("ZeroDivisionError")
        ELSE Return(RDiv(float(sum(window(period - 1))), float(period)))

compute_atr_off_by_one(candles, period) ==
    LET n == Len(candles)
        trs == [i \in 1..RangeLen(1, n) |->
                   compute_true_range(candles[i].close, candles[i + 1].high,
                                      candles[i + 1].low)]
        window(i) == PySlice(trs, i - (period - 1), i + 1)
    IN  IF n < period THEN Raise("InsufficientData")
        ELSE IF period = 0 THEN Raise("ZeroDivisionError")
        ELSE IF RangeLen(period - 1, Len(trs)) = 0 THEN Raise("IndexError")
        ELSE Return(RDiv(float(sum(window(Len(trs) - 1))), float(period)))

compute_atr(candles, period) ==
    LET n == Len(candles)
        \* trs[i] is the true range of candle i (0-based), i = 1..n-1
        trs == [i \in 1..RangeLen(1, n) |->
                   compute_true_range(candles[i].close, candles[i + 1].high,
                                      candles[i + 1].low)]
        \* for i in range(period - 1, len(trs))
        cnt == RangeLen(period - 1, Len(trs))
        window(i) == PySlice(trs, i - (period - 1), i + 1)
        atr_values == [k \in 1..cnt |->
                          RDiv(float(sum(window(period - 1 + k - 1))),
                               float(period))]
    IN  IF n < period + 1 THEN Raise("InsufficientData")
        ELSE IF period = 0 /\ cnt > 0 THEN Raise("ZeroDivisionError")
        ELSE IF cnt = 0 THEN Raise("IndexError")
        ELSE Return(atr_values[cnt])

---------------------------------------------------------------------------
(* Stop resolver: App.compute_stop_distance.  The method reads the form    *)
(* fields stop_pct_var, stop_level_var and side_var; here they are         *)
(* parameters.  Its ValueErrors are told apart by kind: "InvalidStop" for  *)
(* the two messages about an invalid percentage or distance,               *)
(* "MissingStopInput" for the message that neither field is filled in.     *)

StopReturn(dist, pct) == [err |-> "none", dist |-> dist, pct |-> pct]
StopRaise(kind) == [err |-> kind, dist |-> Unset, pct |-> Unset]
StopPending == [err |-> "pending", dist |-> Unset, pct |-> Unset]

compute_stop_distance_level_first(last_close, stop_pct_str, stop_level_str, side) ==
    IF stop_level_str # <<>> THEN
        LET stop_level == float(stop_level_str[1])
            dist == IF side = "Long"
                    THEN RMax0(RSub(last_close, stop_level))
                    ELSE RMax0(RSub(stop_level, last_close))
        IN  IF RLeqZero(dist) THEN StopRaise("InvalidStop")
            ELSE StopReturn(dist, RMul(RDiv(dist, last_close), float(100)))
    ELSE IF stop_pct_str = <<>> THEN StopRaise("MissingStopInput")
    ELSE LET pct == float(stop_pct_str[1])
         IN  IF RLeqZero(pct) THEN StopRaise("InvalidStop")
             ELSE StopReturn(RMul(last_close, RDiv(pct, float(100))), pct)

compute_stop_distance_unsigned(last_close, stop_pct_str, stop_level_str, side) ==
    IF stop_pct_str # <<>> THEN
        LET pct == float(stop_pct_str[1])
        IN  IF RLeqZero(pct) THEN StopRaise("InvalidStop")
            ELSE StopReturn(RMul(last_close, RDiv(pct, float(100))), pct)
    ELSE IF stop_level_str = <<>> THEN StopRaise("MissingStopInput")
    ELSE LET stop_level == float(stop_level_str[1])
             d == RSub(last_close, stop_level)
             dist == IF d[1] < 0 THEN RSub(stop_level, last_close) ELSE d
         IN  IF RLeqZero(dist) THEN StopRaise("InvalidStop")
             ELSE StopReturn(dist, RMul(RDiv(dist, last_close), float(100)))

compute_stop_distance(last_close, stop_pct_str, stop_level_str, side) ==
    IF stop_pct_str # <<>> THEN
        LET pct == float(stop_pct_str[1])
        IN  IF RLeqZero(pct) THEN StopRaise("InvalidStop")
            ELSE StopReturn(RMul(last_close, RDiv(pct, float(100))), pct)
    ELSE IF stop_level_str = <<>> THEN StopRaise("MissingStopInput")
    ELSE LET stop_level == float(stop_level_str[1])
             dist == IF side = "Long"
                     THEN RMax0(RSub(last_close, stop_level))
                     ELSE RMax0(RSub(stop_level, last_close))
         IN  IF RLeqZero(dist) THEN StopRaise("InvalidStop")
             ELSE StopReturn(dist, RMul(RDiv(dist, last_close), float(100)))

---------------------------------------------------------------------------
(* Hitting-time estimator. *)

median_hitting_time_bm_strict(sigma, barrier_abs, dt_seconds) ==
    IF ~RIsInf(sigma) /\ sigma[1] < 0 THEN Return(INF)
    ELSE IF sigma[1] = 0 THEN Raise("ZeroDivisionError")
    ELSE LET r == RDiv(barrier_abs, sigma)
             steps == RMul(<<1, 2>>, RMul(r, r))
         IN  Return(RMul(steps, float(dt_seconds)))

median_hitting_time_bm(sigma, barrier_abs, dt_seconds) ==
    IF RLeqZero(sigma) THEN Return(INF)
    ELSE LET r == RDiv(barrier_abs, sigma)
             steps == RMul(<<1, 2>>, RMul(r, r))
         IN  Return(RMul(steps, float(dt_seconds)))

---------------------------------------------------------------------------
(* Display formatting: f"{x:.kf}".  The text of a float is its value       *)
(* rounded to k decimals (ties to even), kept as <<units of 10^-k, k>>;    *)
(* "inf" is <<0, -1>>.                                                     *)

RECURSIVE Pow10(_)
Pow10(k) == IF k = 0 THEN 1 ELSE 10 * Pow10(k - 1)

RoundHalfEven(n, d) ==
    LET f == n \div d
        r == n - f * d
    IN  IF 2 * r < d THEN f
        ELSE IF 2 * r > d THEN f + 1
        ELSE IF f % 2 = 0 THEN f ELSE f + 1

Fmt(q, k) ==
    IF RIsInf(q) THEN <<0, -1>>
    ELSE <<RoundHalfEven(q[1] * Pow10(k), q[2]), k>>

---------------------------------------------------------------------------
(* Collaborators.  feed.candles is the history the exchange holds for the  *)
(* requested instrument and bar, oldest first; feed.price_usd is the DEX   *)
(* quote, <<>> when no pair is found.                                      *)

\* fetch_okx_candles: the newest `limit` candles, oldest first
fetch_okx_candles(fd, limit) ==
    IF Len(fd.candles) <= limit THEN fd.candles
    ELSE SubSeq(fd.candles, Len(fd.candles) - limit + 1, Len(fd.candles))

BarMapping ==
    [b \in {"1m", "5m", "15m", "1H", "4H", "1D"} |->
        CASE b = "1m" -> 60
          [] b = "5m" -> 5 * 60
          [] b = "15m" -> 15 * 60
          [] b = "1H" -> 60 * 60
          [] b = "4H" -> 4 * 60 * 60
          [] b = "1D" -> 24 * 60 * 60]

bar_to_seconds(bar) ==
    IF bar \in DOMAIN BarMapping THEN BarMapping[bar] ELSE 60 * 60

---------------------------------------------------------------------------
(* App.on_calculate.  The handler is run statement group by statement      *)
(* group on a record h of its locals, the widgets it writes (h.ui) and the *)
(* exception in flight (h.err); a group is skipped once one is raised.     *)

Locals(ui) ==
    [ui |-> ui, err |-> "none",
     atr_called |-> FALSE, atr_candles |-> <<>>, atr_period |-> 0,
     mht_called |-> FALSE, sigma |-> Unset, dt_seconds |-> 0,
     open_notional |-> Unset, quote_sym |-> "", candles |-> <<>>,
     atr_value |-> Unset, last_close |-> Unset,
     stop_abs |-> Unset, stop_pct |-> Unset,
     position_base |-> Unset, loss_quote |-> Unset,
     median_seconds |-> Unset, median_hours |-> Unset]

Throw(h, kind) == [h EXCEPT !.err = kind]

\* lines 330-336
StepParse(h, f) ==
    IF h.err # "none" THEN h
    ELSE LET open_notional == float(f.open_notional)
         IN  IF RLeqZero(open_notional) THEN Throw(h, "InvalidNotional")
             ELSE [h EXCEPT !.open_notional = open_notional]

\* lines 338-339
StepStatus(h) ==
    IF h.err # "none" THEN h ELSE [h EXCEPT !.ui.status = "busy"]

\* line 354, with what compute_atr is called with kept for the record
CallAtr(h, candles, atr_n) ==
    LET r == compute_atr(candles, atr_n)
        g == [h EXCEPT !.atr_called = TRUE, !.atr_candles = candles,
                       !.atr_period = atr_n]
    IN  IF r.err # "none" THEN Throw(g, r.err)
        ELSE [g EXCEPT !.atr_value = r.val]

\* lines 349, 355: candles[-1]["close"]
LastClose(h, candles) ==
    IF h.err # "none" THEN h
    ELSE IF candles = <<>> THEN Throw(h, "IndexError")
    ELSE [h EXCEPT !.last_close = float(candles[Len(candles)].close)]

\* lines 341-367
StepFetch_always_history(h, f, fd) ==
    IF h.err # "none" THEN h
    ELSE IF f.mode = "CEX" THEN
        LET candles == fetch_okx_candles(fd, Max2(f.atr_n + 50, 100))
            g == [h EXCEPT !.quote_sym = "USDT", !.candles = candles]
        IN  IF Len(candles) < f.atr_n + 1 THEN Throw(g, "InsufficientData")
            ELSE IF f.custom_atr # <<>>
                 THEN LastClose([g EXCEPT !.atr_value = float(f.custom_atr[1])],
                                candles)
                 ELSE LastClose(CallAtr(g, candles, f.atr_n), candles)
    ELSE
        IF fd.price_usd = <<>> THEN Throw(h, "NoQuote")
        ELSE LET g == [h EXCEPT !.last_close = float(fd.price_usd[1]),
                                !.quote_sym = "USD"]
             IN  IF f.custom_atr # <<>>
                 THEN [g EXCEPT !.atr_value = float(f.custom_atr[1])]
                 ELSE Throw(g, "NoHistory")

StepFetch(h, f, fd) ==
    IF h.err # "none" THEN h
    ELSE IF f.mode = "CEX" THEN
        IF f.custom_atr # <<>> THEN
            LET candles == fetch_okx_candles(fd, Max2(f.atr_n + 2, 50))
                g == [h EXCEPT !.quote_sym = "USDT",
                               !.atr_value = float(f.custom_atr[1]),
                               !.candles = candles]
            IN  IF candles = <<>> THEN Throw(g, "NoCandles")
                ELSE LastClose(g, candles)
        ELSE
            LET candles == fetch_okx_candles(fd, Max2(f.atr_n + 50, 100))
                g == [h EXCEPT !.quote_sym = "USDT", !.candles = candles]
            IN  IF Len(candles) < f.atr_n + 1 THEN Throw(g, "InsufficientData")
                ELSE LastClose(CallAtr(g, candles, f.atr_n), candles)
    ELSE
        \* fetch_dex_price_by_token raises when it finds no pair or price
        IF fd.price_usd = <<>> THEN Throw(h, "NoQuote")
        ELSE LET g == [h EXCEPT !.last_close = float(fd.price_usd[1]),
                                !.quote_sym = "USD"]
             IN  IF f.custom_atr # <<>>
                 THEN [g EXCEPT !.atr_value = float(f.custom_atr[1])]
                 ELSE Throw(g, "NoHistory")

\* line 369
StepStop(h, f) ==
    IF h.err # "none" THEN h
    ELSE LET r == compute_stop_distance(h.last_close, f.stop_pct, f.stop_level,
                                        f.side)
         IN  IF r.err # "none" THEN Throw(h, r.err)
             ELSE [h EXCEPT !.stop_abs = r.dist, !.stop_pct = r.pct]

\* lines 372-374
StepSize_times_price(h) ==
    IF h.err # "none" THEN h
    ELSE IF h.last_close[1] = 0 THEN Throw(h, "ZeroDivisionError")
    ELSE LET position_base == RMul(h.open_notional, h.last_close)
         IN  [h EXCEPT !.position_base = position_base,
                       !.loss_quote = RMul(position_base, h.stop_abs)]

StepSize(h) ==
    IF h.err # "none" THEN h
    ELSE IF h.last_close[1] = 0 THEN Throw(h, "ZeroDivisionError")
    ELSE LET position_base == RDiv(h.open_notional, h.last_close)
         IN  [h EXCEPT !.position_base = position_base,
                       !.loss_quote = RMul(position_base, h.stop_abs)]

\* lines 376-378
StepTime(h, f) ==
    IF h.err # "none" THEN h
    ELSE LET dt_seconds == bar_to_seconds(f.bar)
             r == median_hitting_time_bm(h.atr_value, h.stop_abs, dt_seconds)
             g == [h EXCEPT !.mht_called = TRUE, !.sigma = h.atr_value,
                            !.dt_seconds = dt_seconds]
         IN  IF r.err # "none" THEN Throw(g, r.err)
             ELSE [g EXCEPT !.median_seconds = r.val,
                            !.median_hours = RDiv(r.val, float(3600))]

\* lines 381-382
HighlightLoss(h) == <<Fmt(h.loss_quote, 4), h.quote_sym>>
HighlightTime(h) == <<Fmt(h.median_hours, 2)>>

StepHighlight(h) ==
    IF h.err # "none" THEN h
    ELSE [h EXCEPT !.ui.pos = HighlightLoss(h), !.ui.time = HighlightTime(h)]

\* lines 384-403: the lines that carry values
ResultLines(h, f) ==
    << <<f.mode, h.quote_sym>>,
       <<f.side, f.bar, f.atr_n>>,
       Fmt(h.last_close, 6),
       Fmt(h.atr_value, 6),
       <<Fmt(h.stop_pct, 2), Fmt(h.stop_abs, 6)>>,
       Fmt(h.open_notional, 4),
       Fmt(h.loss_quote, 4),
       Fmt(h.open_notional, 6),
       Fmt(h.median_hours, 2) >>

\* line 405
append_result(h, lines) == [h EXCEPT !.ui.txt = lines]

StepText(h, f) ==
    IF h.err # "none" THEN h ELSE append_result(h, ResultLines(h, f))

\* line 406
StepDone(h) ==
    IF h.err # "none" THEN h ELSE [h EXCEPT !.ui.status = "done"]

\* lines 407-409
Except(h) ==
    IF h.err = "none" THEN h ELSE [h EXCEPT !.ui.status = ""]

on_calculate_publish_early(ui, f, fd) ==
    LET h1 == StepParse(Locals(ui), f)
        h2 == StepStatus(h1)
        h3 == StepFetch(h2, f, fd)
        e3 == IF h3.err = "none"
              THEN [h3 EXCEPT !.ui.pos = <<Fmt(float(0), 4), h3.quote_sym>>]
              ELSE h3
        h4 == StepStop(e3, f)
        h5 == StepSize(h4)
        h6 == StepTime(h5, f)
        h7 == StepHighlight(h6)
        h8 == StepText(h7, f)
        h9 == StepDone(h8)
    IN  Except(h9)

on_calculate(ui, f, fd) ==
    LET h1 == StepParse(Locals(ui), f)
        h2 == StepStatus(h1)
        h3 == StepFetch(h2, f, fd)
        h4 == StepStop(h3, f)
        h5 == StepSize(h4)
        h6 == StepTime(h5, f)
        h7 == StepHighlight(h6)
        h8 == StepText(h7, f)
        h9 == StepDone(h8)
    IN  Except(h9)

---------------------------------------------------------------------------
(* Input sets. *)

Prices == 1..MaxPrice
Candles == {c \in [high : Prices, low : Prices, close : Prices] :
               c.low <= c.close /\ c.close <= c.high}

RECURSIVE SeqsUpTo(_, _)
SeqsUpTo(S, n) ==
    IF n = 0 THEN {<<>>}
    ELSE LET shorter == SeqsUpTo(S, n - 1)
         IN  shorter \cup {Append(s, x) : s \in {t \in shorter : Len(t) = n - 1}, x \in S}

Series == SeqsUpTo(Candles, MaxLen)
Periods == (-2)..MaxLen

InitForm ==
    /\ mode_var = "CEX"
    /\ bar_var = "1H"
    /\ atr_n_var = 14
    /\ custom_atr_var = <<>>
    /\ open_notional_var = 100
    /\ stop_pct_var = <<>>
    /\ stop_level_var = <<>>
    /\ side_var = "Long"

InitPublished ==
    /\ pos_highlight_var = <<>>
    /\ time_highlight_var = <<>>
    /\ txt = <<>>
    /\ status_var = ""

NoFeed == [candles |-> <<>>, price_usd |-> <<>>]

---------------------------------------------------------------------------
(* SpecATR: compute_atr on a drawn series and period. *)

InitATR ==
    /\ InitForm
    /\ InitPublished
    /\ feed = NoFeed
    /\ arg \in [fn : {"compute_atr"}, candles : Series, period : Periods]
    /\ ret = Pending

CallComputeAtr ==
    /\ arg.fn = "compute_atr"
    /\ ret = Pending
    /\ ret' = compute_atr(arg.candles, arg.period)
    /\ UNCHANGED <<form, published, status_var, feed, arg>>

NextATR == CallComputeAtr

SpecATR == InitATR /\ [][NextATR]_vars

---------------------------------------------------------------------------
(* SpecStop: App.compute_stop_distance on drawn form fields and price. *)

PctValues == {-5, 0, 5, 10, 50}
LevelValues == 0..(MaxPrice + 1)
Sides == {"Long", "Short"}
Optional(S) == {<<>>} \cup {<<v>> : v \in S}

InitStop ==
    /\ mode_var = "CEX"
    /\ bar_var = "1H"
    /\ atr_n_var = 14
    /\ custom_atr_var = <<>>
    /\ open_notional_var = 100
    /\ stop_pct_var \in Optional(PctValues)
    /\ stop_level_var \in Optional(LevelValues)
    /\ side_var \in Sides
    /\ InitPublished
    /\ feed = NoFeed
    /\ arg \in [fn : {"compute_stop_distance"}, last_close : Prices]
    /\ ret = StopPending

CallComputeStopDistance ==
    /\ arg.fn = "compute_stop_distance"
    /\ ret = StopPending
    /\ ret' = compute_stop_distance(float(arg.last_close), stop_pct_var,
                                    stop_level_var, side_var)
    /\ UNCHANGED <<form, published, status_var, feed, arg>>

NextStop == CallComputeStopDistance

SpecStop == InitStop /\ [][NextStop]_vars

---------------------------------------------------------------------------
(* SpecMHT: median_hitting_time_bm on drawn arguments. *)

Floats(lo, hi, maxden) == {Norm(n, d) : n \in lo..hi, d \in 1..maxden}
BarSeconds == {60, 300, 900, 1800, 3600, 14400, 86400}

InitMHT ==
    /\ InitForm
    /\ InitPublished
    /\ feed = NoFeed
    /\ arg \in [fn : {"median_hitting_time_bm"},
                sigma : Floats(-MaxPrice, MaxPrice, MaxLen),
                barrier_abs : Floats(-1, MaxPrice, MaxLen),
                dt_seconds : BarSeconds]
    /\ ret = Pending

CallMedianHittingTime ==
    /\ arg.fn = "median_hitting_time_bm"
    /\ ret = Pending
    /\ ret' = median_hitting_time_bm(arg.sigma, arg.barrier_abs, arg.dt_seconds)
    /\ UNCHANGED <<form, published, status_var, feed, arg>>

NextMHT == CallMedianHittingTime

SpecMHT == InitMHT /\ [][NextMHT]_vars

---------------------------------------------------------------------------
(* The calculate request: the user fills in the form, the collaborators    *)
(* answer, and on_calculate runs to its end.                               *)

FormRec ==
    [mode |-> mode_var, bar |-> bar_var, atr_n |-> atr_n_var,
     custom_atr |-> custom_atr_var, open_notional |-> open_notional_var,
     stop_pct |-> stop_pct_var, stop_level |-> stop_level_var,
     side |-> side_var]

UiRec ==
    [pos |-> pos_highlight_var, time |-> time_highlight_var, txt |-> txt,
     status |-> status_var]

\* what is kept of a run: its locals and exception, without the widgets
Trace(h) == [x \in DOMAIN h \ {"ui"} |-> h[x]]

CalcPending == Trace(Throw(Locals(<<>>), "pending"))

Handle(f, fd) ==
    LET h == on_calculate(UiRec, f, fd)
    IN  /\ pos_highlight_var' = h.ui.pos
        /\ time_highlight_var' = h.ui.time
        /\ txt' = h.ui.txt
        /\ status_var' = h.ui.status
        /\ ret' = Trace(h)

\* candles with low 1 and close at the high: a low, a middle and the top price
CalcCandles ==
    {c \in Candles : c.low = 1 /\ c.close = c.high /\ c.close \in {1, 2, MaxPrice}}
CalcSeries == SeqsUpTo(CalcCandles, MaxLen)

Feeds(mode, series, quotes) ==
    IF mode = "CEX"
    THEN [candles : series, price_usd : {<<>>}]
    ELSE [candles : {<<>>}, price_usd : Optional(quotes)]

---------------------------------------------------------------------------
(* SpecCalc: on_calculate on a drawn form and feed answer. *)

InitCalc ==
    /\ mode_var \in {"CEX", "DEX"}
    /\ bar_var \in {"1m", "1H", "30m"}
    /\ atr_n_var \in {-1, 0, 1, 2}
    /\ custom_atr_var \in Optional({0, 2})
    /\ open_notional_var \in {-100, 0, 100}
    /\ stop_pct_var \in Optional({0, 5})
    /\ stop_level_var \in Optional({2})
    /\ side_var \in Sides
    /\ InitPublished
    /\ feed \in Feeds(mode_var, CalcSeries, Prices)
    /\ arg = [fn |-> "on_calculate"]
    /\ ret = CalcPending

OnCalculate ==
    /\ arg.fn = "on_calculate"
    /\ Handle(FormRec, feed)
    /\ UNCHANGED <<form, feed, arg>>

NextCalc == OnCalculate

SpecCalc == InitCalc /\ [][NextCalc]_vars

---------------------------------------------------------------------------
(* Spec: the App from construction, through any sequence of requests. *)

\* one history, seen at each of its lengths: closes MaxPrice, 1, 2, MaxPrice, ...
SeqHistory ==
    [i \in 1..MaxLen |->
        LET c == IF i % 3 = 1 THEN MaxPrice ELSE IF i % 3 = 2 THEN 1 ELSE 2
        IN  [high |-> c, low |-> 1, close |-> c]]
SeqSeries == {SubSeq(SeqHistory, 1, k) : k \in 0..MaxLen}

SeqForms ==
    [mode : {"CEX", "DEX"}, bar : {"1H"}, atr_n : {1, 2},
     custom_atr : Optional({2}), open_notional : {0, 100},
     stop_pct : Optional({0, 5}), stop_level : {<<>>}, side : {"Long"}]

Init ==
    /\ InitForm
    /\ InitPublished
    /\ feed = NoFeed
    /\ arg = [fn |-> "App"]
    /\ ret = CalcPending

Request ==
    \E f \in SeqForms :
        \E fd \in Feeds(f.mode, SeqSeries, {MaxPrice}) :
            /\ mode_var' = f.mode
            /\ bar_var' = f.bar
            /\ atr_n_var' = f.atr_n
            /\ custom_atr_var' = f.custom_atr
            /\ open_notional_var' = f.open_notional
            /\ stop_pct_var' = f.stop_pct
            /\ stop_level_var' = f.stop_level
            /\ side_var' = f.side
            /\ feed' = fd
            /\ Handle(f, fd)
            /\ UNCHANGED arg

Next == Request

Spec == Init /\ [][Next]_vars

---------------------------------------------------------------------------
(* Claims about compute_atr, under SpecATR. *)

\* True Range of the candle at 1-based position j >= 2, by its definition:
\* the largest of the three distances
IsTrueRange(m, cs, j) ==
    LET a == cs[j].high - cs[j].low
        b == Abs(cs[j].high - cs[j - 1].close)
        c == Abs(cs[j].low - cs[j - 1].close)
    IN  /\ m >= a /\ m >= b /\ m >= c
        /\ m \in {a, b, c}

TrueRangeAt(cs, j) == CHOOSE m \in 0..MaxPrice : IsTrueRange(m, cs, j)

RECURSIVE SumTrueRange(_, _, _)
\* sum of the True Ranges of the candles at positions from..to
SumTrueRange(cs, from, to) ==
    IF from > to THEN 0
    ELSE TrueRangeAt(cs, from) + SumTrueRange(cs, from + 1, to)

AtrDone == arg.fn = "compute_atr" /\ ret # Pending
AtrInScope == AtrDone /\ arg.period >= 1 /\ Len(arg.candles) >= arg.period + 1

\* C1: for p >= 1 and n >= p+1, compute_atr returns the arithmetic mean of
\* exactly the last p True Range values (value * p = their sum); the result
\* is the one computed from the last p+1 candles alone; and a series whose
\* True Range is constantly c yields c.
C1_AtrIsMeanOfLastP ==
    AtrInScope =>
        LET cs == arg.candles
            n == Len(cs)
            p == arg.period
        IN  /\ ret.err = "none"
            /\ ret.val[2] > 0
            /\ ret.val[1] * p = SumTrueRange(cs, n - p + 1, n) * ret.val[2]
            /\ ret = compute_atr(SubSeq(cs, n - p, n), p)
            /\ \A c \in 0..MaxPrice :
                  (\A j \in 2..n : TrueRangeAt(cs, j) = c) => ret.val = <<c, 1>>

\* a computed ATR whose window leaves out the oldest True Range, which
\* differs from the newest one
C1_Witness ==
    /\ AtrInScope
    /\ arg.period = 1
    /\ Len(arg.candles) = 3
    /\ TrueRangeAt(arg.candles, 2) # TrueRangeAt(arg.candles, 3)
    /\ ret = Return(<<TrueRangeAt(arg.candles, 3), 1>>)

\* C2: a series of length n < p+1 makes compute_atr fail with
\* InsufficientData and return no value, for every p; for n >= p+1 and
\* p >= 1 it never fails with InsufficientData.
C2_InsufficientData ==
    AtrDone =>
        /\ Len(arg.candles) < arg.period + 1 =>
               ret.err = "InsufficientData" /\ ret.val = Unset
        /\ (Len(arg.candles) >= arg.period + 1 /\ arg.period >= 1) =>
               ret.err # "InsufficientData"

\* the boundary: exactly one candle short
C2_Witness ==
    /\ AtrDone
    /\ arg.period >= 1
    /\ Len(arg.candles) = arg.period
    /\ ret.err = "InsufficientData"

---------------------------------------------------------------------------
(* Claims about App.compute_stop_distance, under SpecStop. *)

StopDone == arg.fn = "compute_stop_distance" /\ ret # StopPending

\* dist = num / den, with a finite dist
DistIs(dist, num, den) == dist[2] > 0 /\ dist[1] * den = num * dist[2]

\* C3: with a percentage v the stop is (lastPrice*v/100, v) when v > 0 and
\* InvalidStop when v <= 0; with a level L alone the distance is
\* max(0, lastPrice - L) for Long and max(0, L - lastPrice) for Short,
\* InvalidStop when that is <= 0 and otherwise (distance,
\* distance/lastPrice*100); a level accepted for one side is rejected for
\* the other at the same price.
C3_ResolveStop ==
    StopDone =>
        LET p == arg.last_close
            other == IF side_var = "Long" THEN "Short" ELSE "Long"
        IN  /\ stop_pct_var # <<>> =>
                LET v == stop_pct_var[1]
                IN  IF v > 0
                    THEN /\ ret.err = "none"
                         /\ DistIs(ret.dist, p * v, 100)
                         /\ DistIs(ret.pct, v, 1)
                    ELSE ret = StopRaise("InvalidStop")
            /\ (stop_pct_var = <<>> /\ stop_level_var # <<>>) =>
                LET L == stop_level_var[1]
                    diff == IF side_var = "Long" THEN p - L ELSE L - p
                IN  /\ IF diff > 0
                       THEN /\ ret.err = "none"
                            /\ DistIs(ret.dist, diff, 1)
                            /\ DistIs(ret.pct, diff * 100, p)
                       ELSE ret = StopRaise("InvalidStop")
                    /\ ret.err = "none" =>
                           compute_stop_distance(float(p), <<>>, stop_level_var,
                                                 other).err = "InvalidStop"

\* a level stop accepted for a Short position
C3_Witness ==
    /\ StopDone
    /\ stop_pct_var = <<>>
    /\ stop_level_var # <<>>
    /\ side_var = "Short"
    /\ ret.err = "none"
    /\ ret.dist = float(1)

\* C4: when a percentage is supplied it alone decides the outcome: the
\* level and the side are never consulted, and a percentage <= 0 fails
\* with InvalidStop even beside a valid level; the level decides only when
\* no percentage is supplied; with neither the call fails with
\* MissingStopInput and yields no distance or percentage.
C4_StopRuleSelection ==
    StopDone =>
        LET p == float(arg.last_close)
        IN  /\ stop_pct_var # <<>> =>
                /\ \A l \in Optional(LevelValues), s \in Sides :
                       ret = compute_stop_distance(p, stop_pct_var, l, s)
                /\ stop_pct_var[1] <= 0 => ret = StopRaise("InvalidStop")
                /\ stop_pct_var[1] > 0 => DistIs(ret.pct, stop_pct_var[1], 1)
            /\ (stop_pct_var = <<>> /\ stop_level_var # <<>>) =>
                /\ ret.err \in {"none", "InvalidStop"}
                /\ ret.err = "none" <=>
                       IF side_var = "Long" THEN stop_level_var[1] < arg.last_close
                       ELSE stop_level_var[1] > arg.last_close
            /\ (stop_pct_var = <<>> /\ stop_level_var = <<>>) =>
                ret = StopRaise("MissingStopInput")
            /\ ret.err = "MissingStopInput" =>
                stop_pct_var = <<>> /\ stop_level_var = <<>>

\* an invalid percentage beside a level that would have been valid
C4_Witness ==
    /\ StopDone
    /\ stop_pct_var = <<0>>
    /\ stop_level_var # <<>>
    /\ side_var = "Long"
    /\ stop_level_var[1] < arg.last_close
    /\ ret.err = "InvalidStop"

---------------------------------------------------------------------------
(* Claims about median_hitting_time_bm, under SpecMHT. *)

MhtDone == arg.fn = "median_hitting_time_bm" /\ ret # Pending

\* C6: for sigma > 0 the result r satisfies
\* 2 * sigma^2 * r = barrier_abs^2 * dt_seconds; for sigma <= 0 the result
\* is float("inf"), returned and not raised, whatever the other arguments.
C6_MedianHittingTime ==
    MhtDone =>
        LET sn == arg.sigma[1]
            sd == arg.sigma[2]
            bn == arg.barrier_abs[1]
            bd == arg.barrier_abs[2]
        IN  IF sn > 0
            THEN /\ ret.err = "none"
                 /\ ret.val[2] > 0
                 /\ 2 * sn * sn * ret.val[1] * bd * bd
                        = bn * bn * arg.dt_seconds * sd * sd * ret.val[2]
            ELSE ret = Return(INF)

\* sigma = 2, barrier 3 (not a multiple of sigma), hourly bars
C6_Witness ==
    /\ MhtDone
    /\ arg.sigma = <<2, 1>>
    /\ arg.barrier_abs = <<3, 1>>
    /\ arg.dt_seconds = 3600
    /\ ret = Return(<<4050, 1>>)

---------------------------------------------------------------------------
(* Claims about one App.on_calculate, under SpecCalc. *)

CalcDone == arg.fn = "on_calculate" /\ ret.err # "pending"

\* C5: a request that gets as far as sizing has notional > 0,
\* position_base = notional / last_close and
\* loss_quote = position_base * stop_abs, exactly (no rounding); a request
\* with notional <= 0 fails with InvalidNotional and produces neither.
C5_LossSizing ==
    CalcDone =>
        /\ open_notional_var <= 0 =>
               /\ ret.err = "InvalidNotional"
               /\ ret.position_base = Unset
               /\ ret.loss_quote = Unset
               /\ pos_highlight_var = <<>>
        /\ ret.err = "InvalidNotional" => open_notional_var <= 0
        /\ ret.err = "none" =>
               LET pb == ret.position_base
                   lc == ret.last_close
                   d == ret.stop_abs
                   loss == ret.loss_quote
               IN  /\ open_notional_var > 0
                   /\ lc[1] > 0 /\ lc[2] > 0
                   /\ pb[2] > 0 /\ loss[2] > 0
                   /\ pb[1] * lc[1] = open_notional_var * lc[2] * pb[2]
                   /\ loss[1] * pb[2] * d[2] = pb[1] * d[1] * loss[2]

\* a position size that is not a whole number of 10^-4 units
C5_Witness ==
    /\ CalcDone
    /\ ret.err = "none"
    /\ open_notional_var = 100
    /\ ret.last_close = <<3, 1>>
    /\ ret.position_base = <<100, 3>>
    /\ ret.loss_quote = <<5, 1>>

NoPriceAvailable ==
    \/ mode_var = "CEX" /\ feed.candles = <<>>
    \/ mode_var = "DEX" /\ feed.price_usd = <<>>

\* C7: with a custom ATR supplied, compute_atr is never called and the
\* request never fails with InsufficientData, whatever the series length;
\* the supplied value is the sigma passed to median_hitting_time_bm; the
\* request succeeds only with a last price, taken from the last candle or
\* the quote, and fails when there is none.  Without a custom ATR, sigma
\* is the value compute_atr returned for the request's series and period.
C7_CustomAtrBypass ==
    CalcDone =>
        /\ custom_atr_var # <<>> =>
               /\ ~ret.atr_called
               /\ ret.err # "InsufficientData"
               /\ ret.mht_called => ret.sigma = <<custom_atr_var[1], 1>>
               /\ NoPriceAvailable => ret.err \notin {"none", "pending"}
               /\ ret.err = "none" =>
                      /\ ret.mht_called
                      /\ mode_var = "CEX" =>
                             ret.last_close =
                                 <<feed.candles[Len(feed.candles)].close, 1>>
                      /\ mode_var = "DEX" =>
                             ret.last_close = <<feed.price_usd[1], 1>>
        /\ (custom_atr_var = <<>> /\ ret.mht_called) =>
               /\ ret.atr_called
               /\ ret.atr_candles = feed.candles
               /\ ret.atr_period = atr_n_var
               /\ compute_atr(feed.candles, atr_n_var) = Return(ret.sigma)

\* a custom ATR with a series too short for the period, and a result
C7_Witness ==
    /\ CalcDone
    /\ mode_var = "CEX"
    /\ custom_atr_var # <<>>
    /\ feed.candles # <<>>
    /\ Len(feed.candles) < atr_n_var + 1
    /\ ret.err = "none"

\* C8: compute_atr is never reached with a period <= 0.
C8_PeriodValidated ==
    (CalcDone /\ ret.atr_called) => ret.atr_period >= 1

\* the seconds each bar label of the model stands for on the exchange
LabelSeconds(bar) ==
    CASE bar = "1m" -> 60
      [] bar = "30m" -> 1800
      [] bar = "1H" -> 3600

\* C9: the dt_seconds passed to median_hitting_time_bm is the duration of
\* the label the series was fetched with, and is never a fallback for a
\* label bar_to_seconds does not know (stated for requests with a period
\* >= 1, so that no other defect is involved).
C9_DtIsSeriesInterval ==
    (CalcDone /\ mode_var = "CEX" /\ atr_n_var >= 1 /\ ret.mht_called) =>
        /\ bar_var \in DOMAIN BarMapping
        /\ ret.dt_seconds = LabelSeconds(bar_var)

---------------------------------------------------------------------------
(* Claims about sequences of requests, under Spec. *)

ResultComplete(r) ==
    /\ r.atr_value # Unset /\ r.last_close # Unset
    /\ r.stop_abs # Unset /\ r.stop_pct # Unset
    /\ r.position_base # Unset /\ r.loss_quote # Unset
    /\ r.median_seconds # Unset

\* C10: nothing is published before the first request; a request that
\* fails leaves the loss amount, the hitting time and the result text as
\* they were and ends with its one error; a request that succeeds ends
\* with a complete result and publishes all three from it.
C10_AtomicPublish ==
    /\ published = <<<<>>, <<>>, <<>>>>
    /\ [][IF ret'.err # "none"
          THEN /\ UNCHANGED published
               /\ status_var' = ""
          ELSE /\ ResultComplete(ret')
               /\ status_var' = "done"
               /\ pos_highlight_var' = <<Fmt(ret'.loss_quote, 4), ret'.quote_sym>>
               /\ time_highlight_var' = <<Fmt(ret'.median_hours, 2)>>
               /\ txt' = ResultLines(ret', FormRec')]_vars

\* a request that fails in the stop resolver after an earlier one succeeded
C10_Witness ==
    /\ ret.err \in {"MissingStopInput", "InvalidStop"}
    /\ txt # <<>>
    /\ pos_highlight_var # <<>>
    /\ status_var = ""

=============================================================================
